---- MODULE Spec2Model ----
(***************************************************************************)
(* Model of the FDB services: the storage service (files, direct links,   *)
(* group links, files on disk), the group endpoints of the auth service    *)
(* (groups and their members), the jwt_decode endpoint and the per-user    *)
(* cache of the data service.                                              *)
(***************************************************************************)
EXTENDS Integers, Sequences, FiniteSets, TLC

\* ------------------------------------------------------------------ bounds
NumUsers == 2
MaxGroups == 1
MaxFiles == 2
MaxVersion == 2
MaxClock == 3
MaxRows == 1
MaxInflight == 2

Users == 1..NumUsers
GroupIds == 1..MaxGroups
FileIds == 1..MaxFiles

\* based_on_id is nullable; NULL is no file id
NULL == 0

\* ------------------------------------------------------------- file names
\* A file name is kept as what os.path.splitext makes of it: the part before
\* the last dot and the extension with its dot ("" when there is no dot).
FN(stem, ext) == [stem |-> stem, ext |-> ext]

\* FileTypeEnum: csv = 1, xlsx = 2, xls = 3
FileTypeEnum == <<"csv", "xlsx", "xls">>

\* the last characters of a name, as str.endswith sees them
Suffix(fn) ==
    IF fn.ext # "" THEN
        CASE fn.ext = ".csv" -> "csv"
          [] fn.ext = ".xlsx" -> "xlsx"
          [] fn.ext = ".xls" -> "xls"
          [] OTHER -> "other"
    ELSE
        CASE fn.stem = "acsv" -> "csv"
          [] OTHER -> "other"

\* filename.endswith(tuple(filetype.name for filetype in FileTypeEnum))
EndsWithFileType(fn) == \E i \in 1..Len(FileTypeEnum) : Suffix(fn) = FileTypeEnum[i]

\* os.path.splitext(filename)[1][1:]
ExtName(fn) ==
    CASE fn.ext = ".csv" -> "csv"
      [] fn.ext = ".xlsx" -> "xlsx"
      [] fn.ext = ".xls" -> "xls"
      [] fn.ext = ".txt" -> "txt"
      [] OTHER -> ""

\* FileTypeEnum[name] raises KeyError for a name that is no member
HasFileType(fn) == \E i \in 1..Len(FileTypeEnum) : FileTypeEnum[i] = ExtName(fn)

get_filetype_id(fn) == CHOOSE i \in 1..Len(FileTypeEnum) : FileTypeEnum[i] = ExtName(fn)

\* "{name}.{type}".format(...)
DotType(type_id) ==
    CASE type_id = 1 -> ".csv"
      [] type_id = 2 -> ".xlsx"
      [] type_id = 3 -> ".xls"

get_filename_based_on(filename_left, filename_right) ==
    FN(filename_left.stem, filename_right.ext)

\* os.path.join(basedir, user_id, version, filename)
Path(user_id, version, filename) ==
    [user |-> user_id, version |-> version, name |-> filename]

\* the names a client sends
UploadNames == {FN("a", ".csv"), FN("a", ".txt")}
NewNames == {"r"}
GroupNames == {"g1", "g2"}

\* ------------------------------------------------------------------ state
\* The tables of the database the services share, the storage directory, the
\* auth service's users and tokens, and the cache of the data service.
\* A request that is refused, or that only reads, leaves them as they are; what
\* it answers is given by the ..._status operators below.
VARIABLES
    auth_users,     \* ids of the rows of table users
    clock,          \* the time, in steps of half a token lifetime
    issued,         \* the tokens the login route has written
    redis,          \* the cache: a function from the keys that are set
    groups,         \* rows of table groups: [id, creator_id, name]
    users_groups,   \* rows of table users_groups: <<user_id, group_id>>
    next_group_id,  \* the sequence behind groups.id
    storage_files,  \* rows of table storage_files
    users_files,    \* rows of table users_files: <<user_id, file_id>>
    groups_files,   \* rows of table groups_files: <<group_id, file_id>>
    next_file_id,   \* the sequence behind storage_files.id
    disk,           \* paths of the files in the storage directory
    inflight        \* the requests that have read and not yet written

db == <<groups, users_groups, next_group_id, storage_files, users_files,
        groups_files, next_file_id>>

storage_vars == <<db, disk>>

auth_vars == <<auth_users, clock, issued>>

vars == <<storage_vars, auth_vars, redis, inflight>>

Init ==
    /\ groups = {}
    /\ users_groups = {}
    /\ next_group_id = 1
    /\ storage_files = {}
    /\ users_files = {}
    /\ groups_files = {}
    /\ next_file_id = 1
    /\ disk = {}
    /\ auth_users = Users
    /\ clock = 0
    /\ issued = {}
    /\ redis = [key \in {} |-> NULL]
    /\ inflight = {}

\* ---------------------------------------------------------------- queries
\* repository.select_file: the row with this id (FileNotFoundException when
\* there is none, which the callers test with FileFound)
FileFound(file_id) == \E r \in storage_files : r.id = file_id

select_file(file_id) == CHOOSE r \in storage_files : r.id = file_id

\* StorageFile.users, loaded through users_files
FileUsers(file_id) == {l[1] : l \in {l \in users_files : l[2] = file_id}}

\* a variant of User.files that also follows the groups of the user
UserFilesOf_with_groups(user_id) ==
    {r \in storage_files :
        \/ \E l \in users_files : l[1] = user_id /\ l[2] = r.id
        \/ \E g \in users_groups, l \in groups_files :
             g[1] = user_id /\ g[2] = l[1] /\ l[2] = r.id}

\* User.files, loaded through users_files joined to storage_files
UserFilesOf(user_id) ==
    {r \in storage_files : \E l \in users_files : l[1] = user_id /\ l[2] = r.id}

select_user_files(user_id) == {r.id : r \in UserFilesOf(user_id)}

GroupFound(group_id) == \E g \in groups : g.id = group_id

select_group(group_id) == CHOOSE g \in groups : g.id = group_id

\* Group.users, loaded through users_groups
GroupUsers(group_id) == {l[1] : l \in {l \in users_groups : l[2] = group_id}}

\* Group.files, loaded through groups_files joined to storage_files
GroupFiles(group_id) ==
    {r.id : r \in {r \in storage_files :
                     \E l \in groups_files : l[1] = group_id /\ l[2] = r.id}}

\* User.groups, loaded through users_groups joined to groups
select_user_groups(user_id) ==
    {g \in groups : \E l \in users_groups : l[1] = user_id /\ l[2] = g.id}

\* StorageFilePermission.has_user_access_to_file
has_user_access_to_file(user_id, file_id) ==
    LET user_groups_subquery == {l[2] : l \in {l \in users_groups : l[1] = user_id}}
        user_file_exists ==
            {l \in users_files : l[1] = user_id /\ l[2] = file_id} # {}
        group_file_exists ==
            {l \in groups_files :
                l[2] = file_id /\ l[1] \in user_groups_subquery} # {}
    IN  user_file_exists \/ group_file_exists

\* a variant of check_user_access_with_data that denies nobody
check_user_access_with_data_open(user_id, file_id) ==
    IF ~FileFound(file_id) THEN "missing" ELSE "granted"

\* StorageFilePermission.check_user_access_with_data: "denied" for
\* {"access": False}, "missing" when select_file raises, "granted" otherwise
check_user_access_with_data(user_id, file_id) ==
    IF ~has_user_access_to_file(user_id, file_id) THEN "denied"
    ELSE IF ~FileFound(file_id) THEN "missing"
    ELSE "granted"

\* repository.create_user_file: the new row and its link to the creator
NewRow(filename, path, user_id, version, based_on_id) ==
    [id |-> next_file_id, creator_id |-> user_id, filename |-> filename,
     path |-> path, type_id |-> get_filetype_id(filename),
     version |-> version, based_on_id |-> based_on_id]

create_user_file(filename, path, user_id, version, based_on_id) ==
    /\ next_file_id <= MaxFiles
    /\ storage_files' =
         storage_files \cup {NewRow(filename, path, user_id, version, based_on_id)}
    /\ users_files' = users_files \cup {<<user_id, next_file_id>>}
    /\ next_file_id' = next_file_id + 1
    /\ UNCHANGED <<groups, users_groups, next_group_id, groups_files, auth_vars, redis, inflight>>

\* repository.update_file: UPDATE ... WHERE creator_id = ... AND filename = ...
update_file(storage_file, filename, path) ==
    storage_files' =
        {IF r.creator_id = storage_file.creator_id /\ r.filename = storage_file.filename
            THEN [r EXCEPT !.filename = filename, !.path = path]
            ELSE r : r \in storage_files}

\* a variant of remove_file for a based_on_id without ON DELETE SET NULL
remove_file_keep_based_on(storage_file) ==
    /\ storage_files' = storage_files \ {storage_file}
    /\ users_files' = {l \in users_files : l[2] # storage_file.id}
    /\ groups_files' = {l \in groups_files : l[2] # storage_file.id}

\* a variant of remove_file for link tables without ON DELETE CASCADE
remove_file_no_cascade(storage_file) ==
    /\ storage_files' =
         {IF r.based_on_id = storage_file.id THEN [r EXCEPT !.based_on_id = NULL] ELSE r :
            r \in storage_files \ {storage_file}}
    /\ UNCHANGED <<users_files, groups_files>>

\* repository.remove_file: DELETE of the row; users_files and groups_files
\* rows go with it (ON DELETE CASCADE), based_on_id of the rows that were
\* based on it becomes NULL (ON DELETE SET NULL)
remove_file(storage_file) ==
    /\ storage_files' =
         {IF r.based_on_id = storage_file.id THEN [r EXCEPT !.based_on_id = NULL] ELSE r :
            r \in storage_files \ {storage_file}}
    /\ users_files' = {l \in users_files : l[2] # storage_file.id}
    /\ groups_files' = {l \in groups_files : l[2] # storage_file.id}

\* ------------------------------------------------- storage service routes
\* Each route has the answer it gives in the current state (the exception that
\* is raised, in the order the handler raises them, or "OK") and the step it
\* takes.

upload_file_status(user_id, filename) ==
    IF ~EndsWithFileType(filename) THEN "FileFormatException"
    ELSE IF Path(user_id, 1, filename) \in disk THEN "FileNameException"
    ELSE IF ~HasFileType(filename) THEN "KeyError"
    ELSE "OK"

upload_file(user_id, filename) ==
    LET status == upload_file_status(user_id, filename)
        filepath == Path(user_id, 1, filename)
    IN
    IF status = "OK"
      THEN /\ disk' = disk \cup {filepath}
           /\ create_user_file(filename, filepath, user_id, 1, NULL)
    ELSE IF status = "KeyError"
      THEN \* create_file has written the file when get_filetype_id raises
           /\ disk' = disk \cup {filepath}
           /\ UNCHANGED <<db, auth_vars, redis, inflight>>
    ELSE UNCHANGED vars

based_on_status(user_id, file_id) ==
    LET data == check_user_access_with_data(user_id, file_id)
        storage_file == select_file(file_id)
    IN
    IF data = "denied" THEN "FilePermissionException"
    ELSE IF data = "missing" THEN "FileNotFoundException"
    ELSE IF storage_file.creator_id = user_id THEN "BasedOnException"
    ELSE IF Path(user_id, 1, storage_file.filename) \in disk THEN "FileNameException"
    ELSE IF storage_file.path \notin disk THEN "FilepathNotFoundException"
    ELSE IF ~HasFileType(storage_file.filename) THEN "KeyError"
    ELSE "OK"

based_on(user_id, file_id) ==
    LET status == based_on_status(user_id, file_id)
        storage_file == select_file(file_id)
        filepath == Path(user_id, 1, storage_file.filename)
    IN
    IF status = "OK"
      THEN /\ disk' = disk \cup {filepath}
           /\ create_user_file(storage_file.filename, filepath, user_id, 1, file_id)
    ELSE IF status = "KeyError"
      THEN /\ disk' = disk \cup {filepath}
           /\ UNCHANGED <<db, auth_vars, redis, inflight>>
    ELSE UNCHANGED vars

add_version_status(user_id, based_file_id, upload_name) ==
    LET data == check_user_access_with_data(user_id, based_file_id)
        storage_file == select_file(based_file_id)
        filename == get_filename_based_on(storage_file.filename, upload_name)
    IN
    IF ~EndsWithFileType(upload_name) THEN "FileFormatException"
    ELSE IF data = "denied" THEN "FilePermissionException"
    ELSE IF data = "missing" THEN "FileNotFoundException"
    ELSE IF Path(user_id, storage_file.version + 1, filename) \in disk
      THEN "FileNameException"
    ELSE IF ~HasFileType(filename) THEN "KeyError"
    ELSE "OK"

add_version(user_id, based_file_id, upload_name) ==
    LET status == add_version_status(user_id, based_file_id, upload_name)
        storage_file == select_file(based_file_id)
        need_version == storage_file.version + 1
        filename == get_filename_based_on(storage_file.filename, upload_name)
        filepath == Path(user_id, need_version, filename)
    IN
    IF status = "OK"
      THEN /\ need_version <= MaxVersion
           /\ disk' = disk \cup {filepath}
           /\ create_user_file(filename, filepath, user_id, need_version, based_file_id)
    ELSE IF status = "KeyError"
      THEN /\ need_version <= MaxVersion
           /\ disk' = disk \cup {filepath}
           /\ UNCHANGED <<db, auth_vars, redis, inflight>>
    ELSE UNCHANGED vars

\* a variant of add_file_to_user that asks for access, not for the creator
add_filelink_to_user_status_by_access(user_id, to_user_id, file_id) ==
    IF ~FileFound(file_id) THEN "FileNotFoundException"
    ELSE IF ~has_user_access_to_file(user_id, file_id) THEN "FilePermissionException"
    ELSE IF file_id \in select_user_files(to_user_id) THEN "FileExistsException"
    ELSE "OK"

\* repository.add_file_to_user
add_filelink_to_user_status(user_id, to_user_id, file_id) ==
    IF ~FileFound(file_id) THEN "FileNotFoundException"
    ELSE IF user_id # select_file(file_id).creator_id THEN "FilePermissionException"
    ELSE IF file_id \in select_user_files(to_user_id) THEN "FileExistsException"
    ELSE "OK"

add_filelink_to_user(user_id, to_user_id, file_id) ==
    IF add_filelink_to_user_status(user_id, to_user_id, file_id) = "OK"
      THEN /\ users_files' = users_files \cup {<<to_user_id, file_id>>}
           /\ UNCHANGED <<groups, users_groups, next_group_id, storage_files,
                          groups_files, next_file_id, disk, auth_vars, redis, inflight>>
    ELSE UNCHANGED vars

\* repository.add_file_to_users
add_filelink_to_users_status(user_id, to_user_ids, file_id) ==
    IF ~FileFound(file_id) THEN "FileNotFoundException"
    ELSE IF user_id # select_file(file_id).creator_id THEN "FilePermissionException"
    ELSE IF {u \in to_user_ids : u \in FileUsers(file_id)} # {} THEN "FileExistsException"
    ELSE "OK"

add_filelink_to_users(user_id, to_user_ids, file_id) ==
    IF add_filelink_to_users_status(user_id, to_user_ids, file_id) = "OK"
      THEN /\ users_files' = users_files \cup {<<u, file_id>> : u \in to_user_ids}
           /\ UNCHANGED <<groups, users_groups, next_group_id, storage_files,
                          groups_files, next_file_id, disk, auth_vars, redis, inflight>>
    ELSE UNCHANGED vars

\* repository.add_file_for_group
add_filelink_to_group_status(user_id, group_id, file_id) ==
    IF ~FileFound(file_id) THEN "FileNotFoundException"
    ELSE IF user_id # select_file(file_id).creator_id THEN "FilePermissionException"
    ELSE IF ~GroupFound(group_id) THEN "GroupNotFoundException"
    ELSE IF user_id \notin GroupUsers(group_id) THEN "GroupPermissionException"
    ELSE IF file_id \in GroupFiles(group_id) THEN "FileGroupExistsException"
    ELSE "OK"

add_filelink_to_group(user_id, group_id, file_id) ==
    IF add_filelink_to_group_status(user_id, group_id, file_id) = "OK"
      THEN /\ groups_files' = groups_files \cup {<<group_id, file_id>>}
           /\ UNCHANGED <<groups, users_groups, next_group_id, storage_files,
                          users_files, next_file_id, disk, auth_vars, redis, inflight>>
    ELSE UNCHANGED vars

\* get_user_files answers with select_user_files(user_id)
get_user_files(user_id) == UNCHANGED vars

get_group_files_status(user_id, group_id) ==
    IF ~GroupFound(group_id) THEN "GroupNotFoundException"
    ELSE IF user_id \notin GroupUsers(group_id) THEN "GroupPermissionException"
    ELSE "OK"

\* get_group_files answers with GroupFiles(group_id) when "OK"
get_group_files(user_id, group_id) == UNCHANGED vars

\* get_file answers with select_file(file_id) when "OK"
get_file_status(user_id, file_id) ==
    LET data == check_user_access_with_data(user_id, file_id) IN
    IF data = "denied" THEN "FilePermissionException"
    ELSE IF data = "missing" THEN "FileNotFoundException"
    ELSE "OK"

get_file(user_id, file_id) == UNCHANGED vars

\* download_file calls get_file and answers with the file at its path
download_file_status(user_id, file_id) == get_file_status(user_id, file_id)

download_file(user_id, file_id) == UNCHANGED vars

patch_file_status(user_id, file_id, new_name) ==
    LET data == check_user_access_with_data(user_id, file_id)
        storage_file == select_file(file_id)
    IN
    IF data = "denied" THEN "FilePermissionException"
    ELSE IF data = "missing" THEN "FileNotFoundException"
    ELSE IF Path(user_id, 1, FN(new_name, DotType(storage_file.type_id))) \in disk
      THEN "FileNameException"
    ELSE IF storage_file.path \notin disk THEN "FileNotFoundError"
    ELSE "OK"

patch_file(user_id, file_id, new_name) ==
    LET storage_file == select_file(file_id)
        filepath == Path(user_id, 1, FN(new_name, DotType(storage_file.type_id)))
    IN
    IF patch_file_status(user_id, file_id, new_name) = "OK"
      THEN /\ disk' = (disk \ {storage_file.path}) \cup {filepath}
           /\ update_file(storage_file, FN(new_name, ""), filepath)
           /\ UNCHANGED <<groups, users_groups, next_group_id, users_files,
                          groups_files, next_file_id, auth_vars, redis, inflight>>
    ELSE UNCHANGED vars

\* a variant of delete_user_from_file without the test for the creator
delete_user_from_file_status_any(user_id, to_user_id, file_id) ==
    IF ~FileFound(file_id) THEN "FileNotFoundException"
    ELSE IF user_id \notin FileUsers(file_id) THEN "FilePermissionException"
    ELSE IF to_user_id \notin FileUsers(file_id) THEN "UserAccessToStorageFile"
    ELSE "OK"

delete_user_from_file_status(user_id, to_user_id, file_id) ==
    IF ~FileFound(file_id) THEN "FileNotFoundException"
    ELSE IF user_id \notin FileUsers(file_id) THEN "FilePermissionException"
    ELSE IF to_user_id = select_file(file_id).creator_id THEN "DeleteUserFileException"
    ELSE IF to_user_id \notin FileUsers(file_id) THEN "UserAccessToStorageFile"
    ELSE "OK"

delete_user_from_file(user_id, to_user_id, file_id) ==
    IF delete_user_from_file_status(user_id, to_user_id, file_id) = "OK"
      THEN /\ users_files' = users_files \ {<<to_user_id, file_id>>}
           /\ UNCHANGED <<groups, users_groups, next_group_id, storage_files,
                          groups_files, next_file_id, disk, auth_vars, redis, inflight>>
    ELSE UNCHANGED vars

delete_group_from_file_status(user_id, group_id, file_id) ==
    IF ~GroupFound(group_id) THEN "GroupNotFoundException"
    ELSE IF user_id \notin GroupUsers(group_id) THEN "GroupPermissionException"
    ELSE IF ~FileFound(file_id) THEN "FileNotFoundException"
    ELSE IF file_id \notin GroupFiles(group_id) THEN "FileInGroupNotFoundException"
    ELSE "OK"

delete_group_from_file(user_id, group_id, file_id) ==
    IF delete_group_from_file_status(user_id, group_id, file_id) = "OK"
      THEN /\ groups_files' = groups_files \ {<<group_id, file_id>>}
           /\ UNCHANGED <<groups, users_groups, next_group_id, storage_files,
                          users_files, next_file_id, disk, auth_vars, redis, inflight>>
    ELSE UNCHANGED vars

delete_user_file_status(user_id, file_id) ==
    LET data == check_user_access_with_data(user_id, file_id) IN
    IF data = "denied" THEN "FilePermissionException"
    ELSE IF data = "missing" THEN "FileNotFoundException"
    ELSE IF select_file(file_id).path \notin disk THEN "FilepathNotFoundException"
    ELSE "OK"

delete_user_file(user_id, file_id) ==
    LET storage_file == select_file(file_id) IN
    IF delete_user_file_status(user_id, file_id) = "OK"
      THEN /\ disk' = disk \ {storage_file.path}
           /\ remove_file(storage_file)
           /\ UNCHANGED <<groups, users_groups, next_group_id, next_file_id, auth_vars, redis, inflight>>
    ELSE UNCHANGED vars

\* ---------------------------------------------- auth service: group routes
\* repository.create_group: groups.name is unique, the INSERT of a used name
\* fails with IntegrityError
create_user_group_status(user_id, name) ==
    IF \E g \in groups : g.name = name THEN "GroupExistsException" ELSE "OK"

create_user_group(user_id, name) ==
    IF create_user_group_status(user_id, name) = "OK"
      THEN /\ next_group_id <= MaxGroups
           /\ groups' = groups \cup
                {[id |-> next_group_id, creator_id |-> user_id, name |-> name]}
           /\ users_groups' = users_groups \cup {<<user_id, next_group_id>>}
           /\ next_group_id' = next_group_id + 1
           /\ UNCHANGED <<storage_files, users_files, groups_files, next_file_id, disk, auth_vars, redis, inflight>>
    ELSE UNCHANGED vars

\* get_groups answers with select_user_groups(user_id)
get_groups(user_id) == UNCHANGED vars

\* get_group answers with select_group(group_id) when "OK"
get_group_status(user_id, group_id) ==
    IF ~GroupFound(group_id) THEN "GroupNotFoundException" ELSE "OK"

get_group(user_id, group_id) == UNCHANGED vars

\* repository.add_users_to_group
add_users_to_group_status(user_id, to_user_ids, group_id) ==
    IF ~GroupFound(group_id) THEN "GroupNotFoundException"
    ELSE IF user_id \notin GroupUsers(group_id) THEN "GroupPermissionException"
    ELSE IF {u \in to_user_ids : u \in GroupUsers(group_id)} # {}
      THEN "UsersInGroupExistsException"
    ELSE "OK"

add_users_to_group(user_id, to_user_ids, group_id) ==
    IF add_users_to_group_status(user_id, to_user_ids, group_id) = "OK"
      THEN /\ users_groups' = users_groups \cup {<<u, group_id>> : u \in to_user_ids}
           /\ UNCHANGED <<groups, next_group_id, storage_files, users_files,
                          groups_files, next_file_id, disk, auth_vars, redis, inflight>>
    ELSE UNCHANGED vars

add_userlink_to_group_status(user_id, to_user_id, group_id) ==
    add_users_to_group_status(user_id, {to_user_id}, group_id)

add_userlink_to_group(user_id, to_user_id, group_id) ==
    add_users_to_group(user_id, {to_user_id}, group_id)

add_userlinks_to_group_status(user_id, to_user_ids, group_id) ==
    add_users_to_group_status(user_id, to_user_ids, group_id)

add_userlinks_to_group(user_id, to_user_ids, group_id) ==
    add_users_to_group(user_id, to_user_ids, group_id)

\* repository.update_group: UPDATE groups SET name = ... WHERE name = group.name
update_group(group, name) ==
    groups' = {IF g.name = group.name THEN [g EXCEPT !.name = name] ELSE g : g \in groups}

rename_group_status(user_id, group_id, name) ==
    IF ~GroupFound(group_id) THEN "GroupNotFoundException"
    ELSE IF user_id \notin GroupUsers(group_id) THEN "GroupPermissionException"
    ELSE IF \E g \in groups : g.id # group_id /\ g.name = name THEN "GroupExistsException"
    ELSE "OK"

rename_group(user_id, group_id, name) ==
    IF rename_group_status(user_id, group_id, name) = "OK"
      THEN /\ update_group(select_group(group_id), name)
           /\ UNCHANGED <<users_groups, next_group_id, storage_files, users_files,
                          groups_files, next_file_id, disk, auth_vars, redis, inflight>>
    ELSE UNCHANGED vars

delete_user_from_group_status(user_id, to_user_id, group_id) ==
    IF ~GroupFound(group_id) THEN "GroupNotFoundException"
    ELSE IF user_id \notin GroupUsers(group_id) THEN "GroupPermissionException"
    ELSE IF user_id = to_user_id THEN "DeleteUserFromGroupException"
    ELSE IF to_user_id \notin GroupUsers(group_id) THEN "ContaionsUserInGroupException"
    ELSE "OK"

delete_user_from_group(user_id, to_user_id, group_id) ==
    IF delete_user_from_group_status(user_id, to_user_id, group_id) = "OK"
      THEN /\ users_groups' = users_groups \ {<<to_user_id, group_id>>}
           /\ UNCHANGED <<groups, next_group_id, storage_files, users_files,
                          groups_files, next_file_id, disk, auth_vars, redis, inflight>>
    ELSE UNCHANGED vars

\* repository.remove_group: DELETE of the row; its users_groups and
\* groups_files rows go with it
remove_group(group) ==
    /\ groups' = groups \ {group}
    /\ users_groups' = {l \in users_groups : l[2] # group.id}
    /\ groups_files' = {l \in groups_files : l[1] # group.id}

delete_group_status(user_id, group_id) ==
    IF ~GroupFound(group_id) THEN "GroupNotFoundException"
    ELSE IF user_id \notin GroupUsers(group_id) THEN "GroupPermissionException"
    ELSE "OK"

delete_group(user_id, group_id) ==
    IF delete_group_status(user_id, group_id) = "OK"
      THEN /\ remove_group(select_group(group_id))
           /\ UNCHANGED <<next_group_id, storage_files, users_files, next_file_id, disk, auth_vars, redis, inflight>>
    ELSE UNCHANGED vars

\* ------------------------------------------------------------ specification
\* Requests come one at a time, from any user, with any arguments.
StorageNext ==
    \E user_id \in Users :
        \/ \E filename \in UploadNames : upload_file(user_id, filename)
        \/ \E file_id \in FileIds : based_on(user_id, file_id)
        \/ \E file_id \in FileIds, filename \in UploadNames :
               add_version(user_id, file_id, filename)
        \/ \E to_user_id \in Users, file_id \in FileIds :
               add_filelink_to_user(user_id, to_user_id, file_id)
        \/ \E to_user_ids \in SUBSET Users, file_id \in FileIds :
               add_filelink_to_users(user_id, to_user_ids, file_id)
        \/ \E group_id \in GroupIds, file_id \in FileIds :
               add_filelink_to_group(user_id, group_id, file_id)
        \/ get_user_files(user_id)
        \/ \E group_id \in GroupIds : get_group_files(user_id, group_id)
        \/ \E file_id \in FileIds : get_file(user_id, file_id)
        \/ \E file_id \in FileIds : download_file(user_id, file_id)
        \/ \E file_id \in FileIds, new_name \in NewNames :
               patch_file(user_id, file_id, new_name)
        \/ \E to_user_id \in Users, file_id \in FileIds :
               delete_user_from_file(user_id, to_user_id, file_id)
        \/ \E group_id \in GroupIds, file_id \in FileIds :
               delete_group_from_file(user_id, group_id, file_id)
        \/ \E file_id \in FileIds : delete_user_file(user_id, file_id)

GroupNext ==
    \E user_id \in Users :
        \/ \E name \in GroupNames : create_user_group(user_id, name)
        \/ get_groups(user_id)
        \/ \E group_id \in GroupIds : get_group(user_id, group_id)
        \/ \E to_user_id \in Users, group_id \in GroupIds :
               add_userlink_to_group(user_id, to_user_id, group_id)
        \/ \E to_user_ids \in SUBSET Users, group_id \in GroupIds :
               add_userlinks_to_group(user_id, to_user_ids, group_id)
        \/ \E group_id \in GroupIds, name \in GroupNames :
               rename_group(user_id, group_id, name)
        \/ \E to_user_id \in Users, group_id \in GroupIds :
               delete_user_from_group(user_id, to_user_id, group_id)
        \/ \E group_id \in GroupIds : delete_group(user_id, group_id)

Next == StorageNext \/ GroupNext

Spec == Init /\ [][Next]_vars

\* ------------------------------------------------ auth service: jwt_decode
\* JWTStrategy(lifetime_seconds=3600)
lifetime_seconds == 3600

\* the clock counts steps of half a lifetime
now == clock * (lifetime_seconds \div 2)

ExpTimes == {k * (lifetime_seconds \div 2) : k \in 0..(MaxClock + 2)}

\* A token is kept as what its three segments hold: whether they parse as a
\* JWT, whether the signature is the one the service's secret gives, and the
\* claims sub (NULL when the payload has none) and exp of the payload.
JWTToken(wellformed, signed, sub, exp) ==
    [wellformed |-> wellformed, signed |-> signed, sub |-> sub, exp |-> exp]

\* JWTStrategy.write_token: sub is the user's id, exp is lifetime_seconds ahead
write_token(user_id) == JWTToken(TRUE, TRUE, user_id, now + lifetime_seconds)

\* the tokens that can be made without the secret
ForgedTokens ==
    {JWTToken(w, FALSE, sub, exp) :
        w \in BOOLEAN, sub \in Users \cup {NULL}, exp \in ExpTimes}

\* the tokens a client can send
Tokens == issued \cup ForgedTokens

\* jwt.decode(token, options={"verify_signature": False}): the segments are
\* parsed (DecodeError, an InvalidTokenError, when they do not parse); with
\* verify_signature off the signature is not compared and exp is not checked
jwt_decode_payload(token) ==
    IF ~token.wellformed THEN "InvalidTokenError" ELSE "payload"

\* the status code jwt_decode answers with
jwt_decode_status(token) ==
    LET decoded == jwt_decode_payload(token) IN
    IF decoded = "ExpiredSignatureError" THEN 401
    ELSE IF decoded = "InvalidTokenError" THEN 400
    ELSE IF token.sub = NULL THEN 400
    ELSE IF token.sub \notin auth_users THEN 404
    ELSE 200

\* the uuid of the answer {"uuid": user_uuid}, when the status is 200
jwt_decode_uuid(token) == token.sub

jwt_decode(token) == UNCHANGED vars

\* storage service, dependencies.get_current_user_uuid: the answer of
\* /auth/jwt/decode is passed on (HTTPException with its status when not 200)
get_current_user_uuid_status(token) == jwt_decode_status(token)

get_current_user_uuid(token) == UNCHANGED vars

\* data service, requests.get_user_uuid (MirrorHTTPException when not 200)
get_user_uuid_status(token) == jwt_decode_status(token)

get_user_uuid(token) == UNCHANGED vars

\* the register route: a new row of table users
register(user_id) ==
    IF user_id \notin auth_users
      THEN /\ auth_users' = auth_users \cup {user_id}
           /\ UNCHANGED <<clock, issued, storage_vars, redis, inflight>>
    ELSE UNCHANGED vars

\* the login route: the strategy writes a token for the user
login(user_id) ==
    IF user_id \in auth_users
      THEN /\ issued' = issued \cup {write_token(user_id)}
           /\ UNCHANGED <<auth_users, clock, storage_vars, redis, inflight>>
    ELSE UNCHANGED vars

\* time passes
tick ==
    /\ clock < MaxClock
    /\ clock' = clock + 1
    /\ UNCHANGED <<auth_users, issued, storage_vars, redis, inflight>>

InitJwt ==
    /\ groups = {}
    /\ users_groups = {}
    /\ next_group_id = 1
    /\ storage_files = {}
    /\ users_files = {}
    /\ groups_files = {}
    /\ next_file_id = 1
    /\ disk = {}
    /\ auth_users = {}
    /\ clock = 0
    /\ issued = {}
    /\ redis = [key \in {} |-> NULL]
    /\ inflight = {}

NextJwt ==
    \/ \E user_id \in Users : register(user_id)
    \/ \E user_id \in Users : login(user_id)
    \/ tick
    \/ \E token \in Tokens : jwt_decode(token)
    \/ \E token \in Tokens : get_current_user_uuid(token)
    \/ \E token \in Tokens : get_user_uuid(token)

SpecJwt == InitJwt /\ [][NextJwt]_vars

\* ------------------------------------------------ data service: the cache
\* The caller of a data route is the user id the auth service answers with
\* for the caller's token. A DataFrame is kept as its column names and its
\* number of rows.
Frame(columns, rows) == [columns |-> columns, rows |-> rows]

\* what the files of the storage hold
FileFrames == {Frame({"a", " b"}, MaxRows)}

\* what the storage service answers to GET /storage/download/{file_id}, as
\* StorageServiceRequests.get_user_file passes it on
DownloadAnswers ==
    {[status |-> "OK", df |-> df] : df \in FileFrames}
    \cup {[status |-> e, df |-> Frame({}, 0)] :
            e \in {"MirrorHTTPException", "CSVSepException", "LoadCSVException"}}

\* what the storage service answers to POST /storage/add/version, as
\* StorageServiceRequests.sent_file passes it on
SentAnswers ==
    {[status |-> "OK", id |-> id] : id \in FileIds}
    \cup {[status |-> e, id |-> NULL] : e \in {"ServerException", "MirrorHTTPException"}}

\* the column lists a client sends
ColumnRequests == {{}, {"a"}, {"a", "q"}}

\* col.strip()
strip(col) == IF col = " b" THEN "b" ELSE col

pickle_dumps(value) == [pickle |-> value]

pickle_loads(blob) == blob.pickle

\* f"{user_id}_data" and f"{user_id}_file_id"
data_key(user_id) == <<user_id, "_data">>

file_id_key(user_id) == <<user_id, "_file_id">>

\* redis.set(key, value), on the mapping r
redis_set(r, key, value) ==
    [k \in DOMAIN r \cup {key} |-> IF k = key THEN value ELSE r[k]]

\* a variant of set_dataframe that sets the dataframe only
set_dataframe_data_only(user_id, df, file_id) ==
    redis_set(redis, data_key(user_id), pickle_dumps(df))

\* RedisConnection.set_dataframe: the cache after the call; file_id = NULL is
\* file_id=None
set_dataframe(user_id, df, file_id) ==
    LET with_data == redis_set(redis, data_key(user_id), pickle_dumps(df)) IN
    IF file_id # NULL
      THEN redis_set(with_data, file_id_key(user_id), pickle_dumps(file_id))
      ELSE with_data

\* RedisConnection.set_file_id: the cache after the call
set_file_id(user_id, file_id) ==
    redis_set(redis, file_id_key(user_id), pickle_dumps(file_id))

\* RedisConnection.get_dataframe: DataNotFound when redis.get gives None
get_dataframe_status(user_id) ==
    IF data_key(user_id) \notin DOMAIN redis THEN "DataNotFound" ELSE "OK"

get_dataframe(user_id) == pickle_loads(redis[data_key(user_id)])

\* RedisConnection.get_filet_id
get_filet_id_status(user_id) ==
    IF file_id_key(user_id) \notin DOMAIN redis THEN "DataNotFound" ELSE "OK"

get_filet_id(user_id) == pickle_loads(redis[file_id_key(user_id)])

\* dependencies.get_user_data: the dataframe, then the file id
get_user_data_status(user_id) ==
    IF get_dataframe_status(user_id) # "OK" THEN get_dataframe_status(user_id)
    ELSE get_filet_id_status(user_id)

\* ValidateData.check_columns
check_columns_status(df, columns) ==
    IF columns # {} /\ columns \ df.columns # {} THEN "ColumnsNotFoundException"
    ELSE "OK"

check_columns(df, columns) ==
    IF columns # {} THEN Frame(columns, df.rows) ELSE df

\* df.assign(**result): the columns of the result are set in df
assign(df, columns) == Frame(df.columns \cup columns, df.rows)

\* what the data service does not touch
not_redis == <<storage_vars, auth_vars, inflight>>

\* Each route of the data service has the answer it gives (..._status), the
\* cache it leaves (..._redis) and the step it takes.
load_file_status(user_id, file_id, answer) == answer.status

load_file_redis(user_id, file_id, answer) ==
    LET df == Frame({strip(col) : col \in answer.df.columns}, answer.df.rows) IN
    IF load_file_status(user_id, file_id, answer) = "OK"
      THEN set_dataframe(user_id, df, file_id)
      ELSE redis

load_file(user_id, file_id, answer) ==
    /\ redis' = load_file_redis(user_id, file_id, answer)
    /\ UNCHANGED not_redis

\* the routes that only read what get_user_data gives
save_df_status(user_id) == get_user_data_status(user_id)

save_df(user_id) == UNCHANGED vars

get_columns_status(user_id) == get_user_data_status(user_id)

get_columns(user_id) == UNCHANGED vars

get_data_info_status(user_id) == get_user_data_status(user_id)

get_data_info(user_id) == UNCHANGED vars

\* the route GET /data/dataframe
get_dataframe_route_status(user_id) == get_user_data_status(user_id)

get_dataframe_route(user_id) == UNCHANGED vars

\* columns: the pairs (old name, new name) of the request
rename_columns_status(user_id, columns) ==
    IF get_user_data_status(user_id) # "OK" THEN get_user_data_status(user_id)
    ELSE IF {p[1] : p \in columns} \ get_dataframe(user_id).columns # {}
      THEN "ColumnsNotFoundException"
    ELSE "OK"

rename_columns_redis(user_id, columns) ==
    LET df == get_dataframe(user_id)
        renamed == {IF \E p \in columns : p[1] = col
                      THEN (CHOOSE p \in columns : p[1] = col)[2]
                      ELSE col : col \in df.columns}
    IN
    IF rename_columns_status(user_id, columns) = "OK"
      THEN set_dataframe(user_id, Frame(renamed, df.rows), NULL)
      ELSE redis

rename_columns(user_id, columns) ==
    /\ redis' = rename_columns_redis(user_id, columns)
    /\ UNCHANGED not_redis

save_progress_status(user_id, answer) ==
    IF get_user_data_status(user_id) # "OK" THEN get_user_data_status(user_id)
    ELSE answer.status

save_progress_redis(user_id, answer) ==
    IF save_progress_status(user_id, answer) = "OK"
      THEN set_file_id(user_id, answer.id)
      ELSE redis

save_progress(user_id, answer) ==
    /\ redis' = save_progress_redis(user_id, answer)
    /\ UNCHANGED not_redis

\* built: whether the library call of the route gives a result (an exception
\* of the library is not caught and ends the request)
recovery_data_status(user_id, columns, built) ==
    IF get_user_data_status(user_id) # "OK" THEN get_user_data_status(user_id)
    ELSE IF check_columns_status(get_dataframe(user_id), columns) # "OK"
      THEN check_columns_status(get_dataframe(user_id), columns)
    ELSE IF ~built THEN "Exception"
    ELSE "OK"

recovery_data_df(user_id, columns) ==
    assign(get_dataframe(user_id), check_columns(get_dataframe(user_id), columns).columns)

recovery_data_redis(user_id, columns, built, update_df) ==
    IF recovery_data_status(user_id, columns, built) = "OK" /\ update_df = TRUE
      THEN set_dataframe(user_id, recovery_data_df(user_id, columns), NULL)
      ELSE redis

recovery_data(user_id, columns, built, update_df) ==
    /\ redis' = recovery_data_redis(user_id, columns, built, update_df)
    /\ UNCHANGED not_redis

\* evaluated: what df.eval(expr) gives: a Series, a DataFrame, a scalar (an
\* expression that names no column; it has no to_list), or an exception, of
\* which NotImplementedError is one that calculate does not catch. A scalar
\* comes in two cases: "scalar_no_dtype" is a Python number in a request with
\* convert_bool = True, where result.dtype raises AttributeError before the
\* cache is written; "scalar" is a numpy scalar, or any scalar in a request
\* with convert_bool = False, where the first failure is result.to_list()
EvalOutcomes == {"Series", "DataFrame", "scalar", "scalar_no_dtype",
                 "UndefinedVariableError", "ValueError", "SyntaxError",
                 "TypeError", "_UFuncNoLoopError", "NotImplementedError"}

calculate_status(user_id, column_name, rewrite, evaluated) ==
    IF get_user_data_status(user_id) # "OK" THEN get_user_data_status(user_id)
    ELSE IF column_name \in get_dataframe(user_id).columns /\ rewrite = FALSE
      THEN "ColumnsExistsException"
    ELSE IF evaluated = "UndefinedVariableError" THEN "ColumnsNotFoundException"
    ELSE IF evaluated \in {"ValueError", "SyntaxError"} THEN "EvalException"
    ELSE IF evaluated \in {"TypeError", "_UFuncNoLoopError"} THEN "EvalTypeException"
    ELSE IF evaluated = "NotImplementedError" THEN "NotImplementedError"
    ELSE IF evaluated = "DataFrame" THEN "EvalException"
    ELSE IF evaluated \in {"scalar", "scalar_no_dtype"} THEN "AttributeError"
    ELSE "OK"

calculate_df(user_id, column_name) == assign(get_dataframe(user_id), {column_name})

\* set_dataframe is called before result.to_list() is, so the AttributeError of
\* a scalar result comes after the cache is written
calculate_redis(user_id, column_name, rewrite, evaluated, update_df) ==
    IF calculate_status(user_id, column_name, rewrite, evaluated)
         \in {"OK", "AttributeError"}
       /\ evaluated # "scalar_no_dtype"
       /\ update_df = TRUE
      THEN set_dataframe(user_id, calculate_df(user_id, column_name), NULL)
      ELSE redis

calculate(user_id, column_name, rewrite, evaluated, update_df) ==
    /\ redis' = calculate_redis(user_id, column_name, rewrite, evaluated, update_df)
    /\ UNCHANGED not_redis

\* queried: what df.query(expr) gives; rows: the rows the expression keeps
QueryOutcomes == {"DataFrame", "UndefinedVariableError", "ValueError",
                  "SyntaxError", "TypeError"}

filter_data_status(user_id, queried) ==
    IF get_user_data_status(user_id) # "OK" THEN get_user_data_status(user_id)
    ELSE IF queried = "UndefinedVariableError" THEN "ColumnsNotFoundException"
    ELSE IF queried \in {"ValueError", "SyntaxError"} THEN "EvalException"
    ELSE IF queried = "TypeError" THEN "EvalTypeException"
    ELSE "OK"

filter_data_df(user_id, rows) ==
    LET df == get_dataframe(user_id) IN
    Frame(df.columns, IF rows < df.rows THEN rows ELSE df.rows)

filter_data_redis(user_id, queried, rows, update_df) ==
    IF filter_data_status(user_id, queried) = "OK" /\ update_df = TRUE
      THEN set_dataframe(user_id, filter_data_df(user_id, rows), NULL)
      ELSE redis

filter_data(user_id, queried, rows, update_df) ==
    /\ redis' = filter_data_redis(user_id, queried, rows, update_df)
    /\ UNCHANGED not_redis

select_data_status(user_id, columns) ==
    IF get_user_data_status(user_id) # "OK" THEN get_user_data_status(user_id)
    ELSE check_columns_status(get_dataframe(user_id), columns)

select_data_df(user_id, columns) == check_columns(get_dataframe(user_id), columns)

\* a variant of select_data that does not look at update_df
select_data_redis_always(user_id, columns, update_df) ==
    IF select_data_status(user_id, columns) = "OK"
      THEN set_dataframe(user_id, select_data_df(user_id, columns), NULL)
      ELSE redis

select_data_redis(user_id, columns, update_df) ==
    IF select_data_status(user_id, columns) = "OK" /\ update_df = TRUE
      THEN set_dataframe(user_id, select_data_df(user_id, columns), NULL)
      ELSE redis

select_data(user_id, columns, update_df) ==
    /\ redis' = select_data_redis(user_id, columns, update_df)
    /\ UNCHANGED not_redis

\* merged: what pd.merge gives, the merged frame or ValueError
MergeOutcomes ==
    {[status |-> "OK", df |-> Frame({"a", "b", " b"}, MaxRows)],
     [status |-> "ValueError", df |-> Frame({}, 0)]}

merge_data_status(user_id, left_columns, answer, right_columns, merged) ==
    IF get_user_data_status(user_id) # "OK" THEN get_user_data_status(user_id)
    ELSE IF check_columns_status(get_dataframe(user_id), left_columns) # "OK"
      THEN check_columns_status(get_dataframe(user_id), left_columns)
    ELSE IF answer.status # "OK" THEN answer.status
    ELSE IF check_columns_status(answer.df, right_columns) # "OK"
      THEN check_columns_status(answer.df, right_columns)
    ELSE IF merged.status = "ValueError" THEN "MergeColumnsTypeException"
    ELSE "OK"

merge_data_redis(user_id, left_columns, answer, right_columns, merged, update_df) ==
    IF merge_data_status(user_id, left_columns, answer, right_columns, merged) = "OK"
       /\ update_df = TRUE
      THEN set_dataframe(user_id, merged.df, NULL)
      ELSE redis

merge_data(user_id, left_columns, answer, right_columns, merged, update_df) ==
    /\ redis' = merge_data_redis(user_id, left_columns, answer, right_columns,
                                 merged, update_df)
    /\ UNCHANGED not_redis

\* y_column: {} for None, {name} for a name; the method is IQR
get_outliers_status(user_id, columns, y_column, built) ==
    IF get_user_data_status(user_id) # "OK" THEN get_user_data_status(user_id)
    ELSE IF check_columns_status(get_dataframe(user_id), columns) # "OK"
      THEN check_columns_status(get_dataframe(user_id), columns)
    ELSE IF y_column \ check_columns(get_dataframe(user_id), columns).columns # {}
      THEN "ColumnsNotFoundException"
    ELSE IF ~built THEN "Exception"
    ELSE "OK"

\* OutliersBuilder.build: f"{method_name}_outliers", and the y_column when given
outliers_name(y_column) ==
    IF y_column = {} THEN "iqr_outliers" ELSE "iqr_outliers_a"

get_outliers_df(user_id, y_column) ==
    assign(get_dataframe(user_id), {outliers_name(y_column)})

get_outliers_redis(user_id, columns, y_column, built, update_df) ==
    IF get_outliers_status(user_id, columns, y_column, built) = "OK" /\ update_df = TRUE
      THEN set_dataframe(user_id, get_outliers_df(user_id, y_column), NULL)
      ELSE redis

get_outliers(user_id, columns, y_column, built, update_df) ==
    /\ redis' = get_outliers_redis(user_id, columns, y_column, built, update_df)
    /\ UNCHANGED not_redis

\* numeric: whether every chosen column has a numeric dtype
get_clusters_status(user_id, columns, numeric, built) ==
    IF get_user_data_status(user_id) # "OK" THEN get_user_data_status(user_id)
    ELSE IF check_columns_status(get_dataframe(user_id), columns) # "OK"
      THEN check_columns_status(get_dataframe(user_id), columns)
    ELSE IF ~numeric THEN "NotNumericTypeException"
    ELSE IF ~built THEN "Exception"
    ELSE "OK"

\* ClustersBuilder._get_name: f"{method.value}_clusters", the method is KMEANS
get_clusters_df(user_id) == assign(get_dataframe(user_id), {"kmeans_clusters"})

get_clusters_redis(user_id, columns, numeric, built, update_df) ==
    IF get_clusters_status(user_id, columns, numeric, built) = "OK" /\ update_df = TRUE
      THEN set_dataframe(user_id, get_clusters_df(user_id), NULL)
      ELSE redis

get_clusters(user_id, columns, numeric, built, update_df) ==
    /\ redis' = get_clusters_redis(user_id, columns, numeric, built, update_df)
    /\ UNCHANGED not_redis

\* calculation.get_bmi_full: columns are m_column and h_column; computed:
\* whether the division and round give a result (an exception of the library
\* is not caught and ends the request)
get_bmi_full_status(user_id, columns, computed) ==
    IF get_user_data_status(user_id) # "OK" THEN get_user_data_status(user_id)
    ELSE IF check_columns_status(get_dataframe(user_id), columns) # "OK"
      THEN check_columns_status(get_dataframe(user_id), columns)
    ELSE IF ~computed THEN "Exception"
    ELSE "OK"

get_bmi_full_df(user_id, with_groups) ==
    assign(get_dataframe(user_id),
           IF with_groups = TRUE THEN {"BMI", "BMI_group"} ELSE {"BMI"})

get_bmi_full_redis(user_id, columns, with_groups, computed, need_save) ==
    IF get_bmi_full_status(user_id, columns, computed) = "OK" /\ need_save = TRUE
      THEN set_dataframe(user_id, get_bmi_full_df(user_id, with_groups), NULL)
      ELSE redis

get_bmi_full(user_id, columns, with_groups, computed, need_save) ==
    /\ redis' = get_bmi_full_redis(user_id, columns, with_groups, computed, need_save)
    /\ UNCHANGED not_redis

\* the requests of the clients of the data service
RenameRequests == {{<<"a", "b">>}, {<<"q", "a">>}}
MergeColumns == {{"a"}, {"q"}}
YColumns == {{}, {"q"}}
BMIColumns == {{"a"}, {"a", "q"}}
\* the requests for the BMI ask for the groups as well
BMIGroups == {TRUE}

NextData ==
    \E user_id \in Users :
        \/ \E file_id \in FileIds, answer \in DownloadAnswers :
               load_file(user_id, file_id, answer)
        \/ save_df(user_id)
        \/ get_columns(user_id)
        \/ get_data_info(user_id)
        \/ get_dataframe_route(user_id)
        \/ \E columns \in RenameRequests : rename_columns(user_id, columns)
        \/ \E answer \in SentAnswers : save_progress(user_id, answer)
        \/ \E columns \in ColumnRequests, built \in BOOLEAN, update_df \in BOOLEAN :
               recovery_data(user_id, columns, built, update_df)
        \/ \E column_name \in {"a", "x"}, rewrite \in BOOLEAN,
              evaluated \in EvalOutcomes, update_df \in BOOLEAN :
               calculate(user_id, column_name, rewrite, evaluated, update_df)
        \/ \E queried \in QueryOutcomes, rows \in 0..MaxRows, update_df \in BOOLEAN :
               filter_data(user_id, queried, rows, update_df)
        \/ \E columns \in ColumnRequests, update_df \in BOOLEAN :
               select_data(user_id, columns, update_df)
        \/ \E left_columns \in MergeColumns, answer \in DownloadAnswers,
              right_columns \in MergeColumns, merged \in MergeOutcomes,
              update_df \in BOOLEAN :
               merge_data(user_id, left_columns, answer, right_columns, merged, update_df)
        \/ \E columns \in ColumnRequests, y_column \in YColumns,
              built \in BOOLEAN, update_df \in BOOLEAN :
               get_outliers(user_id, columns, y_column, built, update_df)
        \/ \E columns \in ColumnRequests, numeric \in BOOLEAN, built \in BOOLEAN,
              update_df \in BOOLEAN :
               get_clusters(user_id, columns, numeric, built, update_df)
        \/ \E columns \in BMIColumns, with_groups \in BMIGroups, computed \in BOOLEAN,
              need_save \in BOOLEAN :
               get_bmi_full(user_id, columns, with_groups, computed, need_save)

SpecData == Init /\ [][NextData]_vars

\* ------------------------------------------------------------- properties
\* The links of the tables, read directly.
DirectLink(u, f) == <<u, f>> \in users_files

GroupLink(u, f) ==
    \E g \in GroupIds : <<u, g>> \in users_groups /\ <<g, f>> \in groups_files

Linked(u, f) == DirectLink(u, f) \/ GroupLink(u, f)

CreatorOf(f) == (CHOOSE r \in storage_files : r.id = f).creator_id

StorageTables == <<storage_files, users_files, groups_files, disk>>

\* C1: in every reachable state, for every user u and file f,
\* has_user_access_to_file(u, f) is true exactly when there is a users_files
\* link (u, f) or a group g with a users_groups link (u, g) and a
\* groups_files link (g, f); it is false otherwise, also when f does not exist.
C1_AccessIffLinked ==
    \A u \in Users, f \in FileIds :
        /\ has_user_access_to_file(u, f) <=> (DirectLink(u, f) \/ GroupLink(u, f))
        /\ ~FileFound(f) => ~has_user_access_to_file(u, f)

\* a user reaches a file through a group only, and a file that was deleted
\* leaves no access behind
C1_Witness ==
    \E u \in Users, f \in FileIds :
        /\ has_user_access_to_file(u, f) /\ ~DirectLink(u, f)
        /\ \E f2 \in FileIds : f2 < next_file_id /\ ~FileFound(f2)

\* C2, as amended: a caller with no access to the file (no direct link and no
\* link through a group) is answered FilePermissionException by get_file,
\* download_file, based_on, patch_file and delete_user_file, and by
\* add_version when the uploaded name ends with a supported type (when it does
\* not, add_version answers FileFormatException before it looks at the
\* access); none of these requests changes the storage_files rows, the
\* users_files and groups_files links or the files on disk.
C2_NoAccessRefused ==
    /\ [](\A u \in Users, f \in FileIds :
            ~Linked(u, f) =>
              /\ get_file_status(u, f) = "FilePermissionException"
              /\ download_file_status(u, f) = "FilePermissionException"
              /\ based_on_status(u, f) = "FilePermissionException"
              /\ \A n \in UploadNames :
                   add_version_status(u, f, n) =
                     IF EndsWithFileType(n) THEN "FilePermissionException"
                     ELSE "FileFormatException"
              /\ \A n \in NewNames :
                   patch_file_status(u, f, n) = "FilePermissionException"
              /\ delete_user_file_status(u, f) = "FilePermissionException")
    /\ [][\/ UNCHANGED StorageTables
          \/ \A u \in Users, f \in FileIds :
               ~Linked(u, f) =>
                 ~(\/ get_file(u, f)
                   \/ download_file(u, f)
                   \/ based_on(u, f)
                   \/ \E n \in UploadNames : add_version(u, f, n)
                   \/ \E n \in NewNames : patch_file(u, f, n)
                   \/ delete_user_file(u, f))]_vars

\* a file exists that one user has no access to
C2_Witness ==
    \E u \in Users, f \in FileIds :
        /\ FileFound(f) /\ ~Linked(u, f)
        /\ delete_user_file_status(u, f) = "FilePermissionException"
        /\ add_version_status(u, f, FN("a", ".csv")) = "FilePermissionException"

\* C2, as stated: a caller with no access is answered FilePermissionException
\* by each of get_file, download_file, based_on, add_version, patch_file and
\* delete_user_file, and nothing changes.
C2_AsStated ==
    /\ [](\A u \in Users, f \in FileIds :
            ~Linked(u, f) =>
              /\ get_file_status(u, f) = "FilePermissionException"
              /\ download_file_status(u, f) = "FilePermissionException"
              /\ based_on_status(u, f) = "FilePermissionException"
              /\ \A n \in UploadNames :
                   add_version_status(u, f, n) = "FilePermissionException"
              /\ \A n \in NewNames :
                   patch_file_status(u, f, n) = "FilePermissionException"
              /\ delete_user_file_status(u, f) = "FilePermissionException")
    /\ [][\/ UNCHANGED StorageTables
          \/ \A u \in Users, f \in FileIds :
               ~Linked(u, f) =>
                 ~(\/ get_file(u, f)
                   \/ download_file(u, f)
                   \/ based_on(u, f)
                   \/ \E n \in UploadNames : add_version(u, f, n)
                   \/ \E n \in NewNames : patch_file(u, f, n)
                   \/ delete_user_file(u, f))]_vars

\* C3, as stated: patch_file and delete_user_file succeed only for the creator
\* of the file; every other caller is answered FilePermissionException.
C3_OnlyCreatorChanges ==
    \A u \in Users, f \in FileIds :
        (FileFound(f) /\ u # CreatorOf(f)) =>
          /\ \A n \in NewNames : patch_file_status(u, f, n) = "FilePermissionException"
          /\ delete_user_file_status(u, f) = "FilePermissionException"

\* C4: add_filelink_to_user and add_filelink_to_users add users_files links
\* only when the caller is the creator of the file; any other caller of an
\* existing file, also one who has access to it, is answered
\* FilePermissionException, and no link is added.
C4_OnlyCreatorGrants ==
    /\ [](\A u \in Users, f \in FileIds :
            (FileFound(f) /\ u # CreatorOf(f)) =>
              /\ \A to \in Users :
                   add_filelink_to_user_status(u, to, f) = "FilePermissionException"
              /\ \A tos \in SUBSET Users :
                   add_filelink_to_users_status(u, tos, f) = "FilePermissionException")
    /\ [][\/ UNCHANGED users_files
          \/ \A u \in Users, f \in FileIds :
               ~(FileFound(f) /\ u = CreatorOf(f)) =>
                 ~(\/ \E to \in Users : add_filelink_to_user(u, to, f)
                   \/ \E tos \in SUBSET Users : add_filelink_to_users(u, tos, f))]_vars

\* a user who is not the creator has access to the file and is refused
C4_Witness ==
    \E u \in Users, f \in FileIds :
        /\ FileFound(f) /\ u # CreatorOf(f) /\ DirectLink(u, f)
        /\ add_filelink_to_user_status(u, u, f) = "FilePermissionException"

\* C5, as stated: a caller who is not a member of an existing group is
\* answered GroupPermissionException by get_group, rename_group,
\* add_userlink_to_group, add_userlinks_to_group, delete_user_from_group and
\* delete_group.
C5_OnlyMembers ==
    \A u \in Users, g \in GroupIds :
        (GroupFound(g) /\ <<u, g>> \notin users_groups) =>
          /\ get_group_status(u, g) = "GroupPermissionException"
          /\ \A n \in GroupNames :
               rename_group_status(u, g, n) = "GroupPermissionException"
          /\ \A to \in Users :
               add_userlink_to_group_status(u, to, g) = "GroupPermissionException"
          /\ \A tos \in SUBSET Users :
               add_userlinks_to_group_status(u, tos, g) = "GroupPermissionException"
          /\ \A to \in Users :
               delete_user_from_group_status(u, to, g) = "GroupPermissionException"
          /\ delete_group_status(u, g) = "GroupPermissionException"

\* what the claim calls a valid token, and an expired one
ValidToken(t) == t.wellformed /\ t.signed /\ t.sub # NULL

Expired(t) == t.exp <= now

\* C6, as stated: jwt_decode answers 200 with the subject only for a valid,
\* unexpired token of an existing user, 401 for a valid token that has
\* expired, 400 for an invalid token and 404 for a valid, unexpired token of
\* no existing user; get_current_user_uuid and get_user_uuid accept no
\* expired or invalid token.
C6_OnlyValidTokens ==
    \A t \in Tokens :
        /\ jwt_decode_status(t) = 200 =>
             (ValidToken(t) /\ ~Expired(t) /\ t.sub \in auth_users)
        /\ (ValidToken(t) /\ Expired(t)) => jwt_decode_status(t) = 401
        /\ ~ValidToken(t) => jwt_decode_status(t) = 400
        /\ (ValidToken(t) /\ ~Expired(t) /\ t.sub \notin auth_users) =>
             jwt_decode_status(t) = 404
        /\ get_current_user_uuid_status(t) = 200 => (ValidToken(t) /\ ~Expired(t))
        /\ get_user_uuid_status(t) = 200 => (ValidToken(t) /\ ~Expired(t))

\* C7: what get_user_files answers with for a user is exactly the set of the
\* files that have a users_files link to that user; a file the user reaches
\* only through a group is not in it.
C7_MyFilesAreDirect ==
    \A u \in Users :
        /\ select_user_files(u) = {f \in FileIds : DirectLink(u, f)}
        /\ \A f \in FileIds :
             (GroupLink(u, f) /\ ~DirectLink(u, f)) => f \notin select_user_files(u)

\* a user has one file by a direct link and reaches another through a group only
C7_Witness ==
    \E u \in Users, f1 \in FileIds, f2 \in FileIds :
        /\ DirectLink(u, f1) /\ f1 \in select_user_files(u)
        /\ GroupLink(u, f2) /\ ~DirectLink(u, f2) /\ FileFound(f2)

\* whether the cache holds anything for the user
Cached(u) == data_key(u) \in DOMAIN redis \/ file_id_key(u) \in DOMAIN redis

\* C8: while the cache holds nothing for a user, every route that depends on
\* get_user_data answers DataNotFound and leaves the cache as it is; the
\* cache comes to hold something for a user only by a load_file of that user
\* that succeeds; after such a load_file(file_id) the dataframe and the file
\* id are both cached, the file id being file_id; and once get_user_data
\* succeeds for a user it goes on succeeding.
C8_LoadFirst ==
    /\ [](\A u \in Users :
            ~Cached(u) =>
              /\ get_user_data_status(u) = "DataNotFound"
              /\ save_df_status(u) = "DataNotFound"
              /\ get_columns_status(u) = "DataNotFound"
              /\ get_data_info_status(u) = "DataNotFound"
              /\ get_dataframe_route_status(u) = "DataNotFound"
              /\ \A columns \in RenameRequests :
                   /\ rename_columns_status(u, columns) = "DataNotFound"
                   /\ rename_columns_redis(u, columns) = redis
              /\ \A answer \in SentAnswers :
                   /\ save_progress_status(u, answer) = "DataNotFound"
                   /\ save_progress_redis(u, answer) = redis
              /\ \A columns \in ColumnRequests, built \in BOOLEAN, update_df \in BOOLEAN :
                   /\ recovery_data_status(u, columns, built) = "DataNotFound"
                   /\ recovery_data_redis(u, columns, built, update_df) = redis
              /\ \A column_name \in {"a", "x"}, rewrite \in BOOLEAN,
                    evaluated \in EvalOutcomes, update_df \in BOOLEAN :
                   /\ calculate_status(u, column_name, rewrite, evaluated) = "DataNotFound"
                   /\ calculate_redis(u, column_name, rewrite, evaluated, update_df) = redis
              /\ \A queried \in QueryOutcomes, rows \in 0..MaxRows, update_df \in BOOLEAN :
                   /\ filter_data_status(u, queried) = "DataNotFound"
                   /\ filter_data_redis(u, queried, rows, update_df) = redis
              /\ \A columns \in ColumnRequests, update_df \in BOOLEAN :
                   /\ select_data_status(u, columns) = "DataNotFound"
                   /\ select_data_redis(u, columns, update_df) = redis
              /\ \A left_columns \in MergeColumns, answer \in DownloadAnswers,
                    right_columns \in MergeColumns, merged \in MergeOutcomes,
                    update_df \in BOOLEAN :
                   /\ merge_data_status(u, left_columns, answer, right_columns, merged)
                        = "DataNotFound"
                   /\ merge_data_redis(u, left_columns, answer, right_columns, merged,
                                       update_df) = redis
              /\ \A columns \in ColumnRequests, y_column \in YColumns,
                    built \in BOOLEAN, update_df \in BOOLEAN :
                   /\ get_outliers_status(u, columns, y_column, built) = "DataNotFound"
                   /\ get_outliers_redis(u, columns, y_column, built, update_df) = redis
              /\ \A columns \in ColumnRequests, numeric \in BOOLEAN, built \in BOOLEAN,
                    update_df \in BOOLEAN :
                   /\ get_clusters_status(u, columns, numeric, built) = "DataNotFound"
                   /\ get_clusters_redis(u, columns, numeric, built, update_df) = redis
              /\ \A columns \in BMIColumns, with_groups \in BOOLEAN,
                    computed \in BOOLEAN, need_save \in BOOLEAN :
                   /\ get_bmi_full_status(u, columns, computed) = "DataNotFound"
                   /\ get_bmi_full_redis(u, columns, with_groups, computed, need_save)
                        = redis)
    /\ [][\/ UNCHANGED redis
          \/ \A u \in Users :
               /\ (~Cached(u) /\ Cached(u)') =>
                    \E file_id \in FileIds, answer \in DownloadAnswers :
                        /\ load_file_status(u, file_id, answer) = "OK"
                        /\ load_file(u, file_id, answer)
               /\ \A file_id \in FileIds, answer \in DownloadAnswers :
                    (load_file_status(u, file_id, answer) = "OK"
                       /\ load_file(u, file_id, answer)) =>
                      /\ get_dataframe_status(u)' = "OK"
                      /\ get_filet_id_status(u)' = "OK"
                      /\ get_filet_id(u)' = file_id
               /\ get_user_data_status(u) = "OK" => get_user_data_status(u)' = "OK"]_vars

\* one user has loaded file 2 and get_user_data gives it; the other has
\* loaded nothing
C8_Witness ==
    \E u1 \in Users, u2 \in Users :
        /\ get_user_data_status(u1) = "OK" /\ get_filet_id(u1) = 2
        /\ ~Cached(u2) /\ get_user_data_status(u2) = "DataNotFound"

\* the cache r differs from the current one in the dataframe of user u only,
\* which is df
OnlyDataframeReplaced(r, u, df) ==
    /\ DOMAIN r = DOMAIN redis
    /\ pickle_loads(r[data_key(u)]) = df
    /\ \A key \in DOMAIN redis \ {data_key(u)} : r[key] = redis[key]

\* C9: for recovery_data, calculate, filter_data, select_data, merge_data,
\* get_outliers and get_clusters, a request with update_df = False leaves the
\* cache as it is, whatever it answers; a request with update_df = True that
\* succeeds leaves the cache with the dataframe of the result in place of the
\* user's dataframe and everything else, the user's file id included, as it was.
C9_UpdateDfDecides ==
    \A u \in Users :
        /\ \A columns \in ColumnRequests, built \in BOOLEAN :
             /\ recovery_data_redis(u, columns, built, FALSE) = redis
             /\ recovery_data_status(u, columns, built) = "OK" =>
                  OnlyDataframeReplaced(recovery_data_redis(u, columns, built, TRUE),
                                        u, recovery_data_df(u, columns))
        /\ \A column_name \in {"a", "x"}, rewrite \in BOOLEAN, evaluated \in EvalOutcomes :
             /\ calculate_redis(u, column_name, rewrite, evaluated, FALSE) = redis
             /\ calculate_status(u, column_name, rewrite, evaluated) = "OK" =>
                  OnlyDataframeReplaced(
                      calculate_redis(u, column_name, rewrite, evaluated, TRUE),
                      u, calculate_df(u, column_name))
        /\ \A queried \in QueryOutcomes, rows \in 0..MaxRows :
             /\ filter_data_redis(u, queried, rows, FALSE) = redis
             /\ filter_data_status(u, queried) = "OK" =>
                  OnlyDataframeReplaced(filter_data_redis(u, queried, rows, TRUE),
                                        u, filter_data_df(u, rows))
        /\ \A columns \in ColumnRequests :
             /\ select_data_redis(u, columns, FALSE) = redis
             /\ select_data_status(u, columns) = "OK" =>
                  OnlyDataframeReplaced(select_data_redis(u, columns, TRUE),
                                        u, select_data_df(u, columns))
        /\ \A left_columns \in MergeColumns, answer \in DownloadAnswers,
              right_columns \in MergeColumns, merged \in MergeOutcomes :
             /\ merge_data_redis(u, left_columns, answer, right_columns, merged, FALSE)
                  = redis
             /\ merge_data_status(u, left_columns, answer, right_columns, merged) = "OK" =>
                  OnlyDataframeReplaced(
                      merge_data_redis(u, left_columns, answer, right_columns, merged, TRUE),
                      u, merged.df)
        /\ \A columns \in ColumnRequests, y_column \in YColumns, built \in BOOLEAN :
             /\ get_outliers_redis(u, columns, y_column, built, FALSE) = redis
             /\ get_outliers_status(u, columns, y_column, built) = "OK" =>
                  OnlyDataframeReplaced(
                      get_outliers_redis(u, columns, y_column, built, TRUE),
                      u, get_outliers_df(u, y_column))
        /\ \A columns \in ColumnRequests, numeric \in BOOLEAN, built \in BOOLEAN :
             /\ get_clusters_redis(u, columns, numeric, built, FALSE) = redis
             /\ get_clusters_status(u, columns, numeric, built) = "OK" =>
                  OnlyDataframeReplaced(
                      get_clusters_redis(u, columns, numeric, built, TRUE),
                      u, get_clusters_df(u))

\* a user has loaded file 2, a calculate with update_df = True has put column
\* x into the cached dataframe, and the cached file id is still 2
C9_Witness ==
    \E u \in Users :
        /\ get_user_data_status(u) = "OK"
        /\ "x" \in get_dataframe(u).columns
        /\ get_filet_id(u) = 2
        /\ calculate_status(u, "x", TRUE, "Series") = "OK"

\* C10, as amended: for an existing file, delete_user_from_file with
\* to_user_id the creator of the file is answered DeleteUserFileException when
\* the caller has a users_files link to the file and FilePermissionException
\* when the caller has none; it removes nothing; and every existing
\* storage_files row has a users_files link between the file and its creator.
C10_CreatorKeepsLink ==
    /\ [](\A f \in FileIds :
            FileFound(f) =>
              /\ DirectLink(CreatorOf(f), f)
              /\ \A u \in Users :
                   delete_user_from_file_status(u, CreatorOf(f), f) =
                     IF DirectLink(u, f) THEN "DeleteUserFileException"
                     ELSE "FilePermissionException")
    /\ [][\/ UNCHANGED StorageTables
          \/ \A u \in Users, f \in FileIds :
               FileFound(f) => ~delete_user_from_file(u, CreatorOf(f), f)]_vars

\* a user with a link to a file of another user asks to remove the creator
C10_Witness ==
    \E u \in Users, f \in FileIds :
        /\ FileFound(f) /\ u # CreatorOf(f) /\ DirectLink(u, f)
        /\ delete_user_from_file_status(u, CreatorOf(f), f) = "DeleteUserFileException"
        /\ DirectLink(CreatorOf(f), f)

\* C10, as stated: for an existing file, delete_user_from_file with to_user_id
\* the creator of the file is answered DeleteUserFileException whoever calls,
\* and every existing row has the link to its creator.
C10_AsStated ==
    \A f \in FileIds :
        FileFound(f) =>
          /\ DirectLink(CreatorOf(f), f)
          /\ \A u \in Users :
               delete_user_from_file_status(u, CreatorOf(f), f) = "DeleteUserFileException"

\* ------------------------------------------- uploads of names of any shape
\* The names of UploadNames and a name that ends with the letters csv and has
\* no extension.
UploadNamesAll == UploadNames \cup {FN("acsv", "")}

\* the requests that make, pass on, rename and delete files, with these names
NextUpload ==
    \E user_id \in Users :
        \/ \E filename \in UploadNamesAll : upload_file(user_id, filename)
        \/ \E file_id \in FileIds : based_on(user_id, file_id)
        \/ \E to_user_id \in Users, file_id \in FileIds :
               add_filelink_to_user(user_id, to_user_id, file_id)
        \/ \E file_id \in FileIds, new_name \in NewNames :
               patch_file(user_id, file_id, new_name)
        \/ \E file_id \in FileIds : delete_user_file(user_id, file_id)

SpecUpload == Init /\ [][NextUpload]_vars

\* C11, as stated: upload_file answers FileFormatException to every name
\* whose extension is not csv, xlsx or xls, and such an upload makes neither a
\* file on disk nor a row; an upload that is accepted makes one file on disk
\* and one storage_files row with version 1, based_on_id NULL, the caller as
\* creator, the type_id of the extension and a users_files link to the caller.
C11_OnlySupportedTypes ==
    /\ [](\A u \in Users, n \in UploadNamesAll :
            /\ ~HasFileType(n) => upload_file_status(u, n) = "FileFormatException"
            /\ upload_file_status(u, n) = "OK" => HasFileType(n))
    /\ [][\/ UNCHANGED StorageTables
          \/ \A u \in Users, n \in UploadNamesAll :
               upload_file(u, n) =>
                 /\ HasFileType(n)
                 /\ disk' = disk \cup {Path(u, 1, n)}
                 /\ Path(u, 1, n) \notin disk
                 /\ storage_files' = storage_files \cup
                      {[id |-> next_file_id, creator_id |-> u, filename |-> n,
                        path |-> Path(u, 1, n), type_id |-> get_filetype_id(n),
                        version |-> 1, based_on_id |-> NULL]}
                 /\ users_files' = users_files \cup {<<u, next_file_id>>}
                 /\ UNCHANGED groups_files]_vars

C13_CalculateKeepsCache ==
    \A u \in Users, column_name \in {"a", "x"}, rewrite \in BOOLEAN,
       evaluated \in EvalOutcomes, update_df \in BOOLEAN :
        LET status == calculate_status(u, column_name, rewrite, evaluated)
            after == calculate_redis(u, column_name, rewrite, evaluated, update_df)
            df == get_dataframe(u)
            exists == column_name \in df.columns /\ rewrite = FALSE
        IN
        get_user_data_status(u) = "OK" =>
          /\ exists => status = "ColumnsExistsException"
          /\ (~exists /\ evaluated = "UndefinedVariableError") =>
               status = "ColumnsNotFoundException"
          /\ (~exists /\ evaluated \in {"ValueError", "SyntaxError"}) =>
               status = "EvalException"
          /\ (~exists /\ evaluated \in {"TypeError", "_UFuncNoLoopError"}) =>
               status = "EvalTypeException"
          /\ status # "OK" => after = redis
          /\ (status = "OK" /\ update_df = TRUE) =>
               OnlyDataframeReplaced(
                   after, u, Frame(df.columns \cup {column_name}, df.rows))

\* ------------------------------- group requests that run at the same time
\* A handler awaits the database between its SELECTs and its commit, and each
\* request has a session of its own, so the requests of other users can run
\* in between. A request that has passed its tests is kept in inflight, with
\* what it has read, until it commits.
GroupRequest(op, user_id, to_user_ids, group_id) ==
    [op |-> op, user_id |-> user_id, to_user_ids |-> to_user_ids,
     group_id |-> group_id, users |-> GroupUsers(group_id)]

\* add_users_to_group up to group.users.extend: select_group and the tests on
\* the group.users it has loaded
add_users_to_group_read(user_id, to_user_ids, group_id) ==
    IF add_users_to_group_status(user_id, to_user_ids, group_id) = "OK"
      THEN /\ Cardinality(inflight) < MaxInflight
           /\ inflight' = inflight \cup
                {GroupRequest("add_users_to_group", user_id, to_user_ids, group_id)}
           /\ UNCHANGED <<storage_vars, auth_vars, redis>>
    ELSE UNCHANGED vars

\* session.commit() of add_users_to_group: the INSERTs into users_groups
\* (IntegrityError, and nothing inserted, when the group is gone)
add_users_to_group_commit(request) ==
    /\ request.op = "add_users_to_group"
    /\ inflight' = inflight \ {request}
    /\ users_groups' =
         IF GroupFound(request.group_id)
           THEN users_groups \cup {<<u, request.group_id>> : u \in request.to_user_ids}
           ELSE users_groups
    /\ UNCHANGED <<groups, next_group_id, storage_files, users_files,
                   groups_files, next_file_id, disk, auth_vars, redis>>

\* delete_user_from_group up to group.users.remove: select_group, the tests
\* of the route and the test of remove_user_from_group on the group.users
\* that select_group has loaded
delete_user_from_group_read(user_id, to_user_id, group_id) ==
    IF delete_user_from_group_status(user_id, to_user_id, group_id) = "OK"
      THEN /\ Cardinality(inflight) < MaxInflight
           /\ inflight' = inflight \cup
                {GroupRequest("delete_user_from_group", user_id, {to_user_id}, group_id)}
           /\ UNCHANGED <<storage_vars, auth_vars, redis>>
    ELSE UNCHANGED vars

\* session.commit() of remove_user_from_group: the DELETE of the users_groups
\* row of the user that was removed from group.users
delete_user_from_group_commit(request) ==
    /\ request.op = "delete_user_from_group"
    /\ inflight' = inflight \ {request}
    /\ users_groups' =
         users_groups \ {<<u, request.group_id>> : u \in request.to_user_ids}
    /\ UNCHANGED <<groups, next_group_id, storage_files, users_files,
                   groups_files, next_file_id, disk, auth_vars, redis>>

NextGroupRace ==
    \/ \E user_id \in Users, name \in GroupNames : create_user_group(user_id, name)
    \/ \E user_id \in Users, to_user_ids \in SUBSET Users, group_id \in GroupIds :
           add_users_to_group_read(user_id, to_user_ids, group_id)
    \/ \E user_id \in Users, to_user_id \in Users, group_id \in GroupIds :
           delete_user_from_group_read(user_id, to_user_id, group_id)
    \/ \E request \in inflight : add_users_to_group_commit(request)
    \/ \E request \in inflight : delete_user_from_group_commit(request)

SpecGroupRace == Init /\ [][NextGroupRace]_vars

\* C14, as stated: in every reachable state every existing group has at least
\* one member.
C14_GroupsKeepMembers ==
    \A g \in groups : \E u \in Users : <<u, g.id>> \in users_groups

\* ------------------------------------- uploads that run at the same time
\* get_filepath tests os.path.exists, create_file opens the path for writing
\* and create_user_file commits the row: three steps of a request, between
\* which the steps of other requests (of other workers on the same storage
\* directory, and after create_file also of the same event loop) can run.
\* two requests with the same arguments are two requests: each gets the
\* lowest number no request in flight has
UploadRequest(op, user_id, filename, version, based_on_id) ==
    [id |-> CHOOSE i \in 1..MaxInflight :
              /\ \A request \in inflight : request.id # i
              /\ \A j \in 1..(i - 1) : \E request \in inflight : request.id = j,
     op |-> op, user_id |-> user_id, filename |-> filename,
     path |-> Path(user_id, version, filename), version |-> version,
     based_on_id |-> based_on_id, written |-> FALSE]

\* upload_file up to get_filepath
upload_file_check(user_id, filename) ==
    IF ~EndsWithFileType(filename) \/ Path(user_id, 1, filename) \in disk
      THEN UNCHANGED vars
    ELSE /\ Cardinality(inflight) < MaxInflight
         /\ inflight' = inflight \cup
              {UploadRequest("upload_file", user_id, filename, 1, NULL)}
         /\ UNCHANGED <<storage_vars, auth_vars, redis>>

\* add_version up to get_filepath
add_version_check(user_id, based_file_id, upload_name) ==
    LET storage_file == select_file(based_file_id)
        need_version == storage_file.version + 1
        filename == get_filename_based_on(storage_file.filename, upload_name)
    IN
    IF \/ ~EndsWithFileType(upload_name)
       \/ check_user_access_with_data(user_id, based_file_id) # "granted"
       \/ Path(user_id, need_version, filename) \in disk
      THEN UNCHANGED vars
    ELSE /\ need_version <= MaxVersion
         /\ Cardinality(inflight) < MaxInflight
         /\ inflight' = inflight \cup
              {UploadRequest("add_version", user_id, filename, need_version,
                             based_file_id)}
         /\ UNCHANGED <<storage_vars, auth_vars, redis>>

\* StogareController.create_file: open(filepath, "wb") makes the file, or
\* empties the one that is there, and writes the upload into it
create_file(request) ==
    /\ request.written = FALSE
    /\ disk' = disk \cup {request.path}
    /\ inflight' = (inflight \ {request}) \cup {[request EXCEPT !.written = TRUE]}
    /\ UNCHANGED <<db, auth_vars, redis>>

\* create_user_file at the end of upload_file and add_version: the row and
\* its link to the creator are committed (nothing is, when get_filetype_id
\* raises KeyError or the row the version is based on is gone)
create_user_file_commit(request) ==
    /\ request.written = TRUE
    /\ inflight' = inflight \ {request}
    /\ IF /\ HasFileType(request.filename)
          /\ request.based_on_id # NULL => FileFound(request.based_on_id)
         THEN /\ next_file_id <= MaxFiles
              /\ storage_files' = storage_files \cup
                   {NewRow(request.filename, request.path, request.user_id,
                           request.version, request.based_on_id)}
              /\ users_files' = users_files \cup {<<request.user_id, next_file_id>>}
              /\ next_file_id' = next_file_id + 1
         ELSE UNCHANGED <<storage_files, users_files, next_file_id>>
    /\ UNCHANGED <<groups, users_groups, next_group_id, groups_files, disk,
                   auth_vars, redis>>

NextUploadRace ==
    \/ \E user_id \in Users, filename \in UploadNames :
           upload_file_check(user_id, filename)
    \/ \E user_id \in Users, file_id \in FileIds, filename \in UploadNames :
           add_version_check(user_id, file_id, filename)
    \/ \E request \in inflight : create_file(request)
    \/ \E request \in inflight : create_user_file_commit(request)

SpecUploadRace == Init /\ [][NextUploadRace]_vars

\* C15, as stated: upload_file is answered FileNameException when a file is
\* at the target path; no two storage_files rows have the same path; and no
\* create_file of an upload writes to the path of an existing row.
C15_NameTakenOnce ==
    /\ [](/\ \A u \in Users, n \in UploadNames :
               (EndsWithFileType(n) /\ Path(u, 1, n) \in disk) =>
                 upload_file_status(u, n) = "FileNameException"
          /\ \A r1 \in storage_files, r2 \in storage_files :
               r1.path = r2.path => r1 = r2)
    /\ [][\A request \in inflight :
            create_file(request) =>
              ~\E r \in storage_files : r.path = request.path]_vars

====
